---- MODULE Spec2Model ----
(***************************************************************************)
(* Model of src/volatility.py: the driver loop of the volatility trading   *)
(* bot, its per-option position state machine (perform_options_trades),    *)
(* the delta hedger (manage_risk) and the announcement parser              *)
(* (get_realized_volatility).                                              *)
(*                                                                         *)
(* Fixed-point units (the program computes in binary floating point):      *)
(*   prices (market, target, vwap, last, strike)  1/1000 of a dollar       *)
(*   delta                                         1/10000                 *)
(*   net_delta, quantity of an order               1/10 of a share/contract*)
(*   position of the underlying                    shares (venue integer)  *)
(*   sigma, value returned by the parser           1/100 (percent)         *)
(*   T                                             1/3600 of a year        *)
(***************************************************************************)
EXTENDS Integers, Sequences, FiniteSets, TLC

VARIABLES
    pc,             \* "wait" | "loop" | "sleep" | "done" | "failed": position in __main__
                    \* ("pricing" when black_scholes_price is called on its own)
    sigma,          \* realized volatility, -100 (i.e. -1) until first valid parse
    current_tick,   \* last tick returned by get_tick
    previous_tick,  \* tick of the previous loop iteration
    shutdown,       \* status != ACTIVE at the last get_tick
    stats,          \* the ledger: ticker -> record
    net_delta,      \* net_delta computed by the last manage_risk call
    orders,         \* orders posted while processing the last processed tick
    temp,           \* [called, value]: the parser's call at the last processed tick
    assets,         \* the securities snapshot read at the last processed tick
    last_processed, \* the last tick whose body ran to its end, -1 before the first
    raised,         \* [in, error]: the call whose exception ended the process
    pl_reads,       \* number of calls of get_profit_loss made so far
    entry,          \* option -> market price at which its open position was entered
    net_contracts,  \* option -> contracts bought minus contracts sold since the start
    args,           \* arguments of a call of black_scholes_price made on its own
    price           \* [called, value]: what that call returned

vars == <<pc, sigma, current_tick, previous_tick, shutdown, stats, net_delta,
          orders, temp, assets, last_processed, raised, pl_reads, entry,
          net_contracts, args, price>>

----------------------------------------------------------------------------
(* Strategy constants, src/volatility.py:22-29 and literals of the code.   *)

MKT_FEE == 20
SHARES_PER_CONTRACT == 100
OPTIONS_QTY_PER_TRADE == 90
MAX_TICKS_IN_SESSION == 300
NET_DELTA_RISK_LIMIT == 5000
SHARES_ORDER_LIMIT == 10000
ENTRY_GAP == 40
EXIT_GAP == 10
HEDGE_TENTHS == 7
SIGMA_UNSET == -100
PARSE_FAILED == -100
BUMP_H == 10

Checkpoints == {1, 2, 74, 75, 149, 150, 224, 225}

NotCalled == [called |-> FALSE, value |-> 0]

Called(value) == [called |-> TRUE, value |-> value]

NotRaised == [in |-> "none", error |-> "none"]

Raised(in, error) == [in |-> in, error |-> error]

Abs(x) == IF x < 0 THEN -x ELSE x
Max(a, b) == IF a >= b THEN a ELSE b
Min(a, b) == IF a <= b THEN a ELSE b

\* the stats dictionary in insertion order (the iteration order of stats.items())
AllTickers == <<"RTM", "RTM48C", "RTM49C", "RTM50C", "RTM51C", "RTM52C",
                "RTM48P", "RTM49P", "RTM50P", "RTM51P", "RTM52P">>

\* the order in which the refresh loop visits the options (K outer, type inner)
RefreshOrder == <<"RTM48C", "RTM48P", "RTM49C", "RTM49P", "RTM50C", "RTM50P",
                  "RTM51C", "RTM51P", "RTM52C", "RTM52P">>

\* number of option instruments of the ledger that the model tracks
NumOptions == 2

Options == {RefreshOrder[i] : i \in 1..Min(NumOptions, Len(RefreshOrder))}

Tickers == Options \cup {"RTM"}

StatsOrder == SelectSeq(AllTickers, LAMBDA t : t \in Tickers)

Strike(ticker) ==
    CASE ticker \in {"RTM48C", "RTM48P"} -> 48000
      [] ticker \in {"RTM49C", "RTM49P"} -> 49000
      [] ticker \in {"RTM50C", "RTM50P"} -> 50000
      [] ticker \in {"RTM51C", "RTM51P"} -> 51000
      [] ticker \in {"RTM52C", "RTM52P"} -> 52000

IsCall(ticker) == ticker \in {"RTM48C", "RTM49C", "RTM50C", "RTM51C", "RTM52C"}

----------------------------------------------------------------------------
(* get_realized_volatility: the announcement body is a sequence of tokens, *)
(* a token a sequence of one-character strings.                            *)

Digits == {"0", "1", "2", "3", "4", "5", "6", "7", "8", "9"}

DigitVal(c) ==
    CASE c = "0" -> 0 [] c = "1" -> 1 [] c = "2" -> 2 [] c = "3" -> 3
      [] c = "4" -> 4 [] c = "5" -> 5 [] c = "6" -> 6 [] c = "7" -> 7
      [] c = "8" -> 8 [] c = "9" -> 9

RECURSIVE DigitsValue(_)
DigitsValue(s) ==
    IF s = <<>> THEN 0
    ELSE 10 * DigitsValue(SubSeq(s, 1, Len(s) - 1)) + DigitVal(s[Len(s)])

\* float(text): [ok, value]; ok = FALSE stands for the ValueError float raises.
\* Only optionally signed decimal integers are recognised as numbers.
float(text) ==
    LET signed == text # <<>> /\ text[1] \in {"-", "+"}
        digits == IF signed THEN Tail(text) ELSE text
    IN  IF digits # <<>> /\ \A i \in 1..Len(digits) : digits[i] \in Digits
        THEN [ok |-> TRUE,
              value |-> IF signed /\ text[1] = "-" THEN -DigitsValue(digits)
                        ELSE DigitsValue(digits)]
        ELSE [ok |-> FALSE, value |-> 0]

\* token[:-n]
DropLast(token, n) == SubSeq(token, 1, Len(token) - n)

\* the try/except of get_realized_volatility applied to the split body;
\* float(x) / 100.0 is x in hundredths
parse_body(news_body) ==
    IF Len(news_body) = 16
    THEN LET f == float(DropLast(news_body[Len(news_body)], 1))
         IN  IF f.ok THEN f.value ELSE PARSE_FAILED
    ELSE IF Len(news_body) < 30
         THEN PARSE_FAILED                        \* IndexError on news_body[29]
         ELSE LET f == float(DropLast(news_body[30], 2))
              IN  IF f.ok THEN f.value ELSE PARSE_FAILED

\* get_realized_volatility on a response of the news endpoint:
\* raised = TRUE when the call leaves by an exception (not res.ok, or an
\* empty feed indexed at [0], which happens before the try block)
get_realized_volatility(res) ==
    IF ~res.ok THEN [raised |-> TRUE, value |-> 0]
    ELSE IF res.news = <<>> THEN [raised |-> TRUE, value |-> 0]
    ELSE [raised |-> FALSE, value |-> parse_body(res.news[1])]

----------------------------------------------------------------------------
(* Pricing.  The closed form of black_scholes_price (log, exp, norm.cdf)   *)
(* is not computed: its value is the argument closed_form, which the       *)
(* environment draws from a bounded set; the degenerate branch is exact.   *)

get_time(tick) == 300 - tick

black_scholes_price(S, K, r, sig, T, is_call, closed_form) ==
    IF T <= 0 \/ sig <= 0 THEN Max(S - K, 0) ELSE closed_form

\* central difference of black_scholes_price at S + h and S - h; outside the
\* degenerate branch the quotient of the two closed forms is closed_delta
calculate_delta(S, K, r, sig, T, is_call, h, closed_delta) ==
    IF T <= 0 \/ sig <= 0
    THEN ((black_scholes_price(S + h, K, r, sig, T, is_call, 0)
           - black_scholes_price(S - h, K, r, sig, T, is_call, 0)) * 10000) \div (2 * h)
    ELSE closed_delta

\* no call of black_scholes_price made on its own
NoArgs == [S |-> 0, K |-> 0, sigma |-> 0, T |-> 0, is_call |-> TRUE, closed_form |-> 0]

----------------------------------------------------------------------------
(* Orders.  by is a label of the model naming the branch that posted it.   *)

Order(ticker, action, quantity, by) ==
    [ticker |-> ticker, action |-> action, quantity |-> quantity, by |-> by]

buy(ticker, quantity, by) == Order(ticker, "BUY", quantity, by)

sell(ticker, quantity, by) == Order(ticker, "SELL", quantity, by)

----------------------------------------------------------------------------
(* perform_options_trades                                                  *)

\* options_trade with a long position closed above the entry gap reversed
\* into a short one in the same call
options_trade_reversing(ticker, data) ==
    LET qty == 10 * OPTIONS_QTY_PER_TRADE
    IN  IF data.position = 0
        THEN IF Abs(data.market - data.target) >= ENTRY_GAP
             THEN IF data.market < data.target
                  THEN [position |-> 1, orders |-> <<buy(ticker, qty, "signal")>>]
                  ELSE [position |-> 2, orders |-> <<sell(ticker, qty, "signal")>>]
             ELSE [position |-> 0, orders |-> <<>>]
        ELSE IF data.position = 1
        THEN IF data.market >= data.target \/ Abs(data.market - data.target) <= EXIT_GAP
             THEN [position |-> IF data.market >= data.target THEN 2 ELSE 0,
                   orders |-> <<sell(ticker, qty, "signal")>>]
             ELSE [position |-> 1, orders |-> <<>>]
        ELSE IF data.market <= data.target \/ Abs(data.market - data.target) <= EXIT_GAP
             THEN [position |-> IF data.market <= data.target THEN 1 ELSE 0,
                   orders |-> <<buy(ticker, qty, "signal")>>]
             ELSE [position |-> 2, orders |-> <<>>]

\* options_trade entering only when the gap exceeds the entry threshold
options_trade_strict_entry(ticker, data) ==
    LET qty == 10 * OPTIONS_QTY_PER_TRADE
    IN  IF data.position = 0
        THEN IF Abs(data.market - data.target) > ENTRY_GAP
             THEN IF data.market < data.target
                  THEN [position |-> 1, orders |-> <<buy(ticker, qty, "signal")>>]
                  ELSE [position |-> 2, orders |-> <<sell(ticker, qty, "signal")>>]
             ELSE [position |-> 0, orders |-> <<>>]
        ELSE IF data.position = 1
        THEN IF data.market >= data.target \/ Abs(data.market - data.target) <= EXIT_GAP
             THEN [position |-> 0, orders |-> <<sell(ticker, qty, "signal")>>]
             ELSE [position |-> 1, orders |-> <<>>]
        ELSE IF data.market <= data.target \/ Abs(data.market - data.target) <= EXIT_GAP
             THEN [position |-> 0, orders |-> <<buy(ticker, qty, "signal")>>]
             ELSE [position |-> 2, orders |-> <<>>]

\* options_trade leaving only strictly inside the exit band
options_trade_strict_exit(ticker, data) ==
    LET qty == 10 * OPTIONS_QTY_PER_TRADE
    IN  IF data.position = 0
        THEN IF Abs(data.market - data.target) >= ENTRY_GAP
             THEN IF data.market < data.target
                  THEN [position |-> 1, orders |-> <<buy(ticker, qty, "signal")>>]
                  ELSE [position |-> 2, orders |-> <<sell(ticker, qty, "signal")>>]
             ELSE [position |-> 0, orders |-> <<>>]
        ELSE IF data.position = 1
        THEN IF data.market >= data.target \/ Abs(data.market - data.target) < EXIT_GAP
             THEN [position |-> 0, orders |-> <<sell(ticker, qty, "signal")>>]
             ELSE [position |-> 1, orders |-> <<>>]
        ELSE IF data.market <= data.target \/ Abs(data.market - data.target) < EXIT_GAP
             THEN [position |-> 0, orders |-> <<buy(ticker, qty, "signal")>>]
             ELSE [position |-> 2, orders |-> <<>>]

\* the body of the for loop for one option: the new position and the order
options_trade(ticker, data) ==
    LET market_price == data.market
        target_price == data.target
        position == data.position
        qty == 10 * OPTIONS_QTY_PER_TRADE
    IN  IF position = 0
        THEN IF Abs(market_price - target_price) >= ENTRY_GAP
             THEN IF market_price < target_price
                  THEN [position |-> 1, orders |-> <<buy(ticker, qty, "signal")>>]
                  ELSE [position |-> 2, orders |-> <<sell(ticker, qty, "signal")>>]
             ELSE [position |-> position, orders |-> <<>>]
        ELSE IF position = 1
        THEN IF market_price >= target_price
                \/ Abs(market_price - target_price) <= EXIT_GAP
             THEN [position |-> 0, orders |-> <<sell(ticker, qty, "signal")>>]
             ELSE [position |-> position, orders |-> <<>>]
        ELSE IF position = 2
        THEN IF market_price <= target_price
                \/ Abs(market_price - target_price) <= EXIT_GAP
             THEN [position |-> 0, orders |-> <<buy(ticker, qty, "signal")>>]
             ELSE [position |-> position, orders |-> <<>>]
        ELSE [position |-> position, orders |-> <<>>]

\* the loop without the continue: no entry of the ledger is skipped
skips_no_ticker(ticker) == FALSE

\* if ticker == "RTM": continue
skips_ticker(ticker) == ticker = "RTM"

RECURSIVE trades_from(_, _, _)
trades_from(st, posted, i) ==
    IF i > Len(StatsOrder) THEN [stats |-> st, orders |-> posted]
    ELSE LET ticker == StatsOrder[i]
         IN  IF skips_ticker(ticker) THEN trades_from(st, posted, i + 1)
             ELSE LET r == options_trade(ticker, st[ticker])
                  IN  trades_from([st EXCEPT ![ticker].position = r.position],
                                  posted \o r.orders, i + 1)

perform_options_trades(st) == trades_from(st, <<>>, 1)

----------------------------------------------------------------------------
(* manage_risk                                                             *)

\* int(x) of a value in tenths: truncation toward zero
int(x10) == IF x10 >= 0 THEN x10 \div 10 ELSE -((-x10) \div 10)

\* the contribution weighted by the market price of the option (in dollars)
delta_term_by_value(data) ==
    LET exposure == (data.delta * OPTIONS_QTY_PER_TRADE * SHARES_PER_CONTRACT) \div 1000
        value == (exposure * data.market) \div 1000
    IN  IF data.position = 1 THEN value
        ELSE IF data.position = 2 THEN -value
        ELSE 0

\* contribution of one option to net_delta, in tenths of a share
\* (delta is in 1/10000, so delta * 90 * 100 shares is delta * 9000 / 1000 tenths)
delta_term(data) ==
    LET exposure == (data.delta * OPTIONS_QTY_PER_TRADE * SHARES_PER_CONTRACT) \div 1000
    IN  IF data.position = 1 THEN exposure
        ELSE IF data.position = 2 THEN -exposure
        ELSE 0

RECURSIVE options_delta_from(_, _, _)
options_delta_from(st, acc, i) ==
    IF i > Len(StatsOrder) THEN acc
    ELSE LET ticker == StatsOrder[i]
         IN  IF ticker = "RTM" THEN options_delta_from(st, acc, i + 1)
             ELSE options_delta_from(st, acc + delta_term(st[ticker]), i + 1)

\* net_delta without the position of the underlying
compute_net_delta_no_underlying(st) == options_delta_from(st, 0, 1)

\* net_delta = 0.0; the for loop; net_delta += position
compute_net_delta(st) ==
    options_delta_from(st, 0, 1) + 10 * st["RTM"].position

\* shares_to_trade = abs(int(net_delta)) * 0.7, in tenths of a share
shares_to_trade_of(nd) == Abs(int(nd)) * HEDGE_TENTHS

\* the while loop alone: the order for the remainder is never posted
RECURSIVE split_orders_no_remainder(_, _)
split_orders_no_remainder(action, shares_to_trade) ==
    IF shares_to_trade > 10 * SHARES_ORDER_LIMIT
    THEN <<Order("RTM", action, 10 * SHARES_ORDER_LIMIT, "hedge")>>
         \o split_orders_no_remainder(action, shares_to_trade - 10 * SHARES_ORDER_LIMIT)
    ELSE <<>>

\* the while loop and the final if of one side of the neutralization
RECURSIVE split_orders(_, _)
split_orders(action, shares_to_trade) ==
    IF shares_to_trade > 10 * SHARES_ORDER_LIMIT
    THEN <<Order("RTM", action, 10 * SHARES_ORDER_LIMIT, "hedge")>>
         \o split_orders(action, shares_to_trade - 10 * SHARES_ORDER_LIMIT)
    ELSE IF shares_to_trade > 0
         THEN <<Order("RTM", action, shares_to_trade, "hedge")>>
         ELSE <<>>

\* the trigger with the limit itself included
over_risk_limit_inclusive(nd) == Abs(nd) >= 10 * NET_DELTA_RISK_LIMIT

over_risk_limit(nd) == Abs(nd) > 10 * NET_DELTA_RISK_LIMIT

neutralize(nd) ==
    IF nd > 0 THEN split_orders("SELL", shares_to_trade_of(nd))
    ELSE split_orders("BUY", shares_to_trade_of(nd))

\* the two elif branches without the test of the net delta left behind
settle_hedge_ungated(nd, rtm) ==
    LET position == rtm.position
    IN  IF position > 0 /\ rtm.vwap < rtm.market - MKT_FEE * position
        THEN <<sell("RTM", 10 * position, "unwind")>>
        ELSE IF position < 0 /\ rtm.vwap > rtm.market + MKT_FEE * Abs(position)
        THEN <<buy("RTM", 10 * Abs(position), "unwind")>>
        ELSE <<>>

\* the two elif branches: settle the hedge for profit
settle_hedge(nd, rtm) ==
    LET position == rtm.position
        something == nd - 10 * position
    IN  IF position > 0 /\ rtm.vwap < rtm.market - MKT_FEE * position
        THEN IF Abs(something) < 10 * NET_DELTA_RISK_LIMIT
             THEN <<sell("RTM", 10 * position, "unwind")>>
             ELSE <<>>
        ELSE IF position < 0 /\ rtm.vwap > rtm.market + MKT_FEE * Abs(position)
        THEN IF Abs(something) < 10 * NET_DELTA_RISK_LIMIT
             THEN <<buy("RTM", 10 * Abs(position), "unwind")>>
             ELSE <<>>
        ELSE <<>>

manage_risk(st) ==
    LET nd == compute_net_delta(st)
    IN  [net_delta |-> nd,
         orders |-> IF over_risk_limit(nd) THEN neutralize(nd)
                    ELSE settle_hedge(nd, st["RTM"])]

----------------------------------------------------------------------------
(* The venue: responses the program can receive.                           *)

\* the ticks the case endpoint reports before the end of the session, in
\* order; the model uses the first NumTicks of them after tick 0
TickList == <<1, 2, 3, 4, 74, 75, 149, 150, 224, 225, 299>>

NumTicks == 3

SessionTicks == {0} \cup {TickList[i] : i \in 1..Min(NumTicks, Len(TickList))}

\* the tick reported after tick t: the next session tick, or the end
NextTick(t) ==
    IF \E u \in SessionTicks : u > t
    THEN CHOOSE u \in SessionTicks : u > t /\ \A w \in SessionTicks : w > t => u <= w
    ELSE MAX_TICKS_IN_SESSION

\* responses of the case endpoint when the last reported tick is t: the same
\* tick again, the next tick (no tick is skipped between two polls), the
\* session reported inactive, or a status that is not a success
CaseResponses(t) ==
    { [ok |-> TRUE,  tick |-> t,           inactive |-> FALSE],
      [ok |-> TRUE,  tick |-> NextTick(t), inactive |-> FALSE],
      [ok |-> TRUE,  tick |-> t,           inactive |-> TRUE],
      [ok |-> FALSE, tick |-> t,           inactive |-> FALSE] }

\* (last price, closed-form fair value) of an option in a snapshot, in 1/1000
QuoteA == [last |-> 1060, closed_form |-> 1100]
QuoteB == [last |-> 1095, closed_form |-> 1050]
QuoteC == [last |-> 1090, closed_form |-> 1050]
QuoteE == [last |-> 1120, closed_form |-> 1100]
QuoteF == [last |-> 1120, closed_form |-> 1150]
QuoteG == [last |-> 1000, closed_form |-> 1040]
QuoteH == [last |-> 1080, closed_form |-> 1040]

OptionQuotes == {QuoteA, QuoteB, QuoteC, QuoteE, QuoteF, QuoteG, QuoteH}

\* finite-difference delta of a call and of a put, in 1/10000 (one value per
\* kind of option: 0.5 and -0.5557, the latter giving fractional exposures)
ClosedDelta(ticker) == IF IsCall(ticker) THEN 5000 ELSE -5557

\* (last, position, vwap) of the underlying in a snapshot
FlatRtm == [last |-> 50000, position |-> 0, vwap |-> 0]

RtmQuotes ==
    { FlatRtm,
      [last |-> 50000, position |-> 5000,   vwap |-> 50000],
      [last |-> 50000, position |-> 5001,   vwap |-> 50000],
      [last |-> 50000, position |-> -6300,  vwap |-> 50000],
      [last |-> 50000, position |-> -20000, vwap |-> 50000],
      [last |-> 50000, position |-> 100000, vwap |-> 50000],
      [last |-> 50000, position |-> 1,      vwap |-> 49970],
      [last |-> 50000, position |-> 1,      vwap |-> 49980],
      [last |-> 50000, position |-> 100,    vwap |-> 49900],
      [last |-> 51000, position |-> 100,    vwap |-> 48000],
      [last |-> 50000, position |-> -100,   vwap |-> 53000],
      [last |-> 50000, position |-> -100,   vwap |-> 50100] }

\* the quotes of the options in a snapshot: one option moves while the others
\* have the quote that keeps any state (QuoteF), or all options move alike
QuoteRows ==
    {[o \in Options |-> IF o = m THEN q ELSE QuoteF] : m \in Options, q \in OptionQuotes}
    \cup {[o \in Options |-> q] : q \in OptionQuotes}

\* a securities snapshot: the fields of REQ_FIELDS the program reads, with the
\* closed-form value the pricing function computes from it.  Either the
\* underlying is flat and the options move, or the underlying carries a
\* position and every option has the quote that keeps its state.
Snapshots ==
    {[rtm |-> FlatRtm, quote |-> row] : row \in QuoteRows}
    \cup {[rtm |-> r, quote |-> [o \in Options |-> QuoteF]] : r \in RtmQuotes}

\* the value of assets before the first snapshot is read
NoAssets == [rtm |-> FlatRtm, quote |-> [o \in Options |-> QuoteF]]

Words(n) == [i \in 1..n |-> <<"w">>]

\* first announcement: 16 tokens, the percentage last
FirstFormat(token) == Words(15) \o <<token>>

\* later announcements: the percentage is token 29 (counted from 0)
LaterFormat(token) == Words(29) \o <<token>> \o Words(3)

NewsBodies ==
    { FirstFormat(<<"2", "0", "%">>),
      LaterFormat(<<"2", "7", "%", ",">>),
      FirstFormat(<<"x", "%">>),
      FirstFormat(<<"0", "%">>),
      Words(5) }

\* responses of the news endpoint that let get_realized_volatility return
NewsResponses == {[ok |-> TRUE, news |-> <<b>>] : b \in NewsBodies}

\* responses on which it raises: a non-success status, an empty feed
NewsFailures == {[ok |-> FALSE, news |-> <<>>], [ok |-> TRUE, news |-> <<>>]}

----------------------------------------------------------------------------
(* __main__                                                                *)

InitialStats ==
    [t \in Tickers |->
        IF t = "RTM" THEN [position |-> 0, target |-> 0, market |-> 0, vwap |-> 0]
        ELSE [position |-> 0, target |-> 0, market |-> 0, delta |-> 0]]

\* an exception caught where it is raised: the program goes on from at
uncaught_retrying(at) == at

\* no call of __main__ sits in a try block: an exception raised by a query
\* leaves __main__ and ends the process, wherever (at) it was raised
uncaught(at) == "failed"

\* what get_tick raises on a response of the case endpoint
tick_raises(res) == IF res.ok THEN NotRaised ELSE Raised("get_tick", "Exception")

\* where the program stands after a call of get_tick made before the main loop
AfterTick(res) ==
    IF ~res.ok THEN uncaught("wait") ELSE IF res.inactive THEN "wait" ELSE "loop"

Init ==
    \E res \in CaseResponses(0) :
        /\ pc = AfterTick(res)
        /\ sigma = SIGMA_UNSET
        /\ current_tick = res.tick
        /\ shutdown = res.inactive
        /\ previous_tick = 0
        /\ stats = InitialStats
        /\ net_delta = 0
        /\ orders = <<>>
        /\ temp = NotCalled
        /\ assets = NoAssets
        /\ last_processed = -1
        /\ raised = tick_raises(res)
        /\ pl_reads = 0
        /\ entry = [o \in Options |-> 0]
        /\ net_contracts = [o \in Options |-> 0]
        /\ args = NoArgs
        /\ price = NotCalled

\* while shutdown: sleep(0.4); current_tick, shutdown = get_tick(session)
WaitForStart ==
    /\ pc = "wait"
    /\ \E res \in CaseResponses(current_tick) :
        /\ pc' = AfterTick(res)
        /\ current_tick' = res.tick
        /\ shutdown' = IF res.ok THEN res.inactive ELSE shutdown
        /\ raised' = tick_raises(res)
    /\ UNCHANGED <<sigma, previous_tick, stats, net_delta, orders, temp, assets,
                   last_processed, pl_reads, entry, net_contracts, args, price>>

\* the loop entered once more at the tick that ends the session
LoopCondition_late == current_tick <= MAX_TICKS_IN_SESSION /\ ~shutdown

\* the condition of the main loop
LoopCondition == current_tick < MAX_TICKS_IN_SESSION /\ ~shutdown

is_checkpoint(tick) == tick \in Checkpoints

\* the update accepting a parsed value of zero
updated_sigma_nonnegative(sig, parsed) == IF parsed >= 0 THEN parsed ELSE sig

\* if (temp > 0): sigma = temp
updated_sigma(sig, parsed) == IF parsed > 0 THEN parsed ELSE sig

\* the refresh without the ratchet: the target follows the fair value
refreshed_target_unratcheted(position, target, black_scholes) == black_scholes

\* the target of an option after the refresh
refreshed_target(position, target, black_scholes) ==
    IF position = 0 THEN black_scholes
    ELSE IF position = 1 THEN Max(black_scholes, target)
    ELSE IF position = 2 THEN Min(black_scholes, target)
    ELSE target

\* the refresh of one option's ledger entry
refresh_option(data, ticker, S, sig, T, quote) ==
    LET K == Strike(ticker)
        is_call == IsCall(ticker)
        black_scholes == black_scholes_price(S, K, 0, sig, T, is_call, quote.closed_form)
    IN  [position |-> data.position,
         market |-> quote.last,
         delta |-> calculate_delta(S, K, 0, sig, T, is_call, BUMP_H, ClosedDelta(ticker)),
         target |-> refreshed_target(data.position, data.target, black_scholes)]

\* the option loop without the break
can_price_always(sig) == TRUE

\* "if sigma < 0: break" lets the option loop run
can_price(sig) == ~(sig < 0)

\* lines 234-258: the ledger after the refresh from snapshot snap
refresh_stats(st, snap, sig, tick) ==
    LET S == snap.rtm.last
        T == get_time(tick)
    IN  [t \in Tickers |->
            IF t = "RTM"
            THEN [st[t] EXCEPT !.market = S,
                               !.position = snap.rtm.position,
                               !.vwap = snap.rtm.vwap]
            ELSE IF can_price(sig)
                 THEN refresh_option(st[t], t, S, sig, T, snap.quote[t])
                 ELSE st[t]]

\* the market price at which the position held after the call was entered:
\* the price of this tick when the call opened it, 0 when the option is Flat
entry_price(held, before, after) ==
    IF after.position = 0 THEN 0
    ELSE IF before.position = 0 THEN after.market
    ELSE held

\* contracts of ticker that the orders in posted buy, minus those they sell
RECURSIVE net_ordered(_, _)
net_ordered(posted, ticker) ==
    IF posted = <<>> THEN 0
    ELSE LET x == Head(posted)
             signed == IF x.ticker # ticker THEN 0
                       ELSE IF x.action = "BUY" THEN x.quantity \div 10
                       ELSE -(x.quantity \div 10)
         IN  signed + net_ordered(Tail(posted), ticker)

\* the body of "if current_tick != previous_tick" on snapshot snap, the parser
\* having returned parsed (NotCalled outside the checkpoints)
RunTick(snap, parsed) ==
    LET sig == IF parsed.called THEN updated_sigma(sigma, parsed.value) ELSE sigma
        refreshed == refresh_stats(stats, snap, sig, current_tick)
        traded == perform_options_trades(refreshed)
        hedged == manage_risk(traded.stats)
    IN  /\ sigma' = sig
        /\ temp' = parsed
        /\ assets' = snap
        /\ stats' = traded.stats
        /\ net_delta' = hedged.net_delta
        /\ orders' = traded.orders \o hedged.orders
        /\ last_processed' = current_tick
        /\ entry' = [o \in Options |-> entry_price(entry[o], stats[o], traded.stats[o])]
        /\ net_contracts' =
               [o \in Options |-> net_contracts[o] + net_ordered(traded.orders, o)]
        /\ pc' = "sleep"
        /\ UNCHANGED <<current_tick, previous_tick, shutdown, raised, pl_reads, args, price>>

\* a new tick is processed to the end
ProcessTick ==
    /\ pc = "loop"
    /\ LoopCondition
    /\ current_tick # previous_tick
    /\ \E snap \in Snapshots :
        IF is_checkpoint(current_tick)
        THEN \E newsres \in NewsResponses :
                RunTick(snap, Called(get_realized_volatility(newsres).value))
        ELSE RunTick(snap, NotCalled)

\* get_securities raises: the exception leaves __main__ before the ledger is touched
SecuritiesFail ==
    /\ pc = "loop"
    /\ LoopCondition
    /\ current_tick # previous_tick
    /\ pc' = uncaught("loop")
    /\ raised' = Raised("get_securities", "Exception")
    /\ UNCHANGED <<sigma, current_tick, previous_tick, shutdown, stats, net_delta,
                   orders, temp, assets, last_processed, pl_reads, entry,
                   net_contracts, args, price>>

\* get_realized_volatility raises at a checkpoint, before the ledger is touched
NewsFail ==
    /\ pc = "loop"
    /\ LoopCondition
    /\ current_tick # previous_tick
    /\ is_checkpoint(current_tick)
    /\ \E newsres \in NewsFailures :
        /\ get_realized_volatility(newsres).raised
        /\ raised' = Raised("get_realized_volatility",
                            IF newsres.ok THEN "IndexError" ELSE "Exception")
    /\ pc' = uncaught("loop")
    /\ UNCHANGED <<sigma, current_tick, previous_tick, shutdown, stats, net_delta,
                   orders, temp, assets, last_processed, pl_reads, entry,
                   net_contracts, args, price>>

\* the tick has not changed: the body is skipped
IdleIteration ==
    /\ pc = "loop"
    /\ LoopCondition
    /\ current_tick = previous_tick
    /\ pc' = "sleep"
    /\ UNCHANGED <<sigma, current_tick, previous_tick, shutdown, stats, net_delta,
                   orders, temp, assets, last_processed, raised, pl_reads, entry,
                   net_contracts, args, price>>

\* sleep(0.4); previous_tick = current_tick; current_tick, shutdown = get_tick(session)
Poll ==
    /\ pc = "sleep"
    /\ \E res \in CaseResponses(current_tick) :
        /\ previous_tick' = current_tick
        /\ current_tick' = res.tick
        /\ shutdown' = IF res.ok THEN res.inactive ELSE shutdown
        /\ pc' = IF res.ok THEN "loop" ELSE uncaught("sleep")
        /\ raised' = tick_raises(res)
    /\ UNCHANGED <<sigma, stats, net_delta, orders, temp, assets, last_processed,
                   pl_reads, entry, net_contracts, args, price>>

\* the loop condition fails: print("TERMINATED with", get_profit_loss(session))
Terminate ==
    /\ pc = "loop"
    /\ ~LoopCondition
    /\ pl_reads' = pl_reads + 1
    /\ \E ok \in BOOLEAN :
        /\ pc' = IF ok THEN "done" ELSE uncaught("loop")
        /\ raised' = IF ok THEN NotRaised ELSE Raised("get_profit_loss", "Exception")
    /\ UNCHANGED <<sigma, current_tick, previous_tick, shutdown, stats, net_delta,
                   orders, temp, assets, last_processed, entry, net_contracts,
                   args, price>>

Next ==
    \/ WaitForStart
    \/ ProcessTick
    \/ SecuritiesFail
    \/ NewsFail
    \/ IdleIteration
    \/ Poll
    \/ Terminate

Spec == Init /\ [][Next]_vars

\* the interpreter runs the next statement of __main__ whenever there is one:
\* sleep(0.4) returns and so does every request, so the polls of the two
\* loops, the skipped body and the final statement are taken when they are due
FairSpec ==
    /\ Spec
    /\ WF_vars(WaitForStart)
    /\ WF_vars(IdleIteration)
    /\ WF_vars(Poll)
    /\ WF_vars(Terminate)

----------------------------------------------------------------------------
(* black_scholes_price called on its own, on arguments of a bounded set.   *)

\* spot prices lie within this many dollars of 50
PricingSpread == 2

\* times to expiry lie within this many ticks of the expiry
PricingHorizon == 1

PricingArgs ==
    [S : {50000 + 1000 * d : d \in -PricingSpread..PricingSpread},
     K : {Strike(RefreshOrder[i]) : i \in 1..Len(RefreshOrder)},
     sigma : {SIGMA_UNSET, 0, 20},
     T : -PricingHorizon..PricingHorizon,
     is_call : BOOLEAN,
     closed_form : {1100}]

PricingInit ==
    /\ pc = "pricing"
    /\ args \in PricingArgs
    /\ price = NotCalled
    /\ sigma = SIGMA_UNSET
    /\ current_tick = 0
    /\ shutdown = TRUE
    /\ previous_tick = 0
    /\ stats = InitialStats
    /\ net_delta = 0
    /\ orders = <<>>
    /\ temp = NotCalled
    /\ assets = NoAssets
    /\ last_processed = -1
    /\ raised = NotRaised
    /\ pl_reads = 0
    /\ entry = [o \in Options |-> 0]
    /\ net_contracts = [o \in Options |-> 0]

\* price = black_scholes_price(S, K, 0.0, sigma, T, is_call)
PriceOption ==
    /\ pc = "pricing"
    /\ ~price.called
    /\ price' = Called(black_scholes_price(args.S, args.K, 0, args.sigma, args.T,
                                          args.is_call, args.closed_form))
    /\ UNCHANGED <<pc, sigma, current_tick, previous_tick, shutdown, stats, net_delta,
                   orders, temp, assets, last_processed, raised, pl_reads, entry,
                   net_contracts, args>>

PricingNext == PriceOption

PricingSpec == PricingInit /\ [][PricingNext]_vars

----------------------------------------------------------------------------
(* Properties                                                               *)

\* the step processed a tick to its end
ProcessedStep == last_processed' # last_processed

\* a tick has been processed
Processed == last_processed >= 0

OrdersFor(posted, ticker) == SelectSeq(posted, LAMBDA x : x.ticker = ticker)

OrdersBy(posted, by) == SelectSeq(posted, LAMBDA x : x.by = by)

Contracts == 10 * OPTIONS_QTY_PER_TRADE

\* C1: the position of an option never changes from Long to Short or from
\* Short to Long in one step: every change has Flat as source or destination.
C1_NoDirectReversal ==
    [][\A o \in Options :
          stats'[o].position # stats[o].position
              => stats[o].position = 0 \/ stats'[o].position = 0]_vars

\* a long position has just been closed
C1_Witness ==
    \E o \in Options :
        /\ Processed
        /\ stats[o].position = 0
        /\ OrdersFor(orders, o) = <<sell(o, Contracts, "signal")>>

\* C2: at every fair-value refresh, a Long option's target does not decrease
\* (it becomes max(target, fair value)), a Short option's target does not
\* increase (min(target, fair value)), a Flat option's target becomes the
\* fair value just computed.
C2_Ratchet ==
    [][ProcessedStep /\ sigma' >= 0 =>
          \A o \in Options :
              LET fair == assets'.quote[o].closed_form
                  old == stats[o].target
                  new == stats'[o].target
              IN  /\ stats[o].position = 1 => new >= old /\ new = Max(old, fair)
                  /\ stats[o].position = 2 => new <= old /\ new = Min(old, fair)
                  /\ stats[o].position = 0 => new = fair]_vars

\* a Long option kept its target above a lower fair value
C2_Witness ==
    \E o \in Options :
        /\ Processed
        /\ stats[o].position = 1
        /\ stats[o].target > assets.quote[o].closed_form

\* C3: a Flat option with market m and target t becomes Long with one BUY of
\* 90 contracts when |m - t| >= 0.04 and m < t, Short with one SELL of 90
\* when |m - t| >= 0.04 and m >= t, and stays Flat without an order when
\* |m - t| < 0.04.
C3_EntryTotality ==
    [][ProcessedStep =>
          \A o \in Options :
              stats[o].position = 0 =>
                  LET m == stats'[o].market
                      t == stats'[o].target
                      posted == OrdersFor(orders', o)
                  IN  IF Abs(m - t) >= 40
                      THEN IF m < t
                           THEN /\ stats'[o].position = 1
                                /\ posted = <<buy(o, Contracts, "signal")>>
                           ELSE /\ stats'[o].position = 2
                                /\ posted = <<sell(o, Contracts, "signal")>>
                      ELSE /\ stats'[o].position = 0
                           /\ posted = <<>>]_vars

\* a Short was opened with the market exactly 0.04 above the target
C3_Witness ==
    \E o \in Options :
        /\ Processed
        /\ stats[o].position = 2
        /\ stats[o].market - stats[o].target = 40
        /\ OrdersFor(orders, o) = <<sell(o, Contracts, "signal")>>

\* C4: a Long option is closed with one SELL of 90 contracts exactly when
\* m >= t or |m - t| <= 0.01, a Short option with one BUY of 90 exactly when
\* m <= t or |m - t| <= 0.01, t being the target after the refresh of that
\* tick; otherwise the state is kept and no order is posted.  A Long with
\* target 1.10, new fair value 1.05 and market 1.095 keeps the target and is
\* closed.
C4_ExitRule ==
    [][ProcessedStep =>
          \A o \in Options :
              LET m == stats'[o].market
                  t == stats'[o].target
                  posted == OrdersFor(orders', o)
              IN  /\ stats[o].position = 1 =>
                        IF m >= t \/ Abs(m - t) <= 10
                        THEN /\ stats'[o].position = 0
                             /\ posted = <<sell(o, Contracts, "signal")>>
                        ELSE /\ stats'[o].position = 1
                             /\ posted = <<>>
                  /\ stats[o].position = 2 =>
                        IF m <= t \/ Abs(m - t) <= 10
                        THEN /\ stats'[o].position = 0
                             /\ posted = <<buy(o, Contracts, "signal")>>
                        ELSE /\ stats'[o].position = 2
                             /\ posted = <<>>
                  /\ ( /\ stats[o].position = 1
                       /\ stats[o].target = 1100
                       /\ assets'.quote[o] = [last |-> 1095, closed_form |-> 1050] )
                        => stats'[o].target = 1100 /\ stats'[o].position = 0]_vars

\* the example: closed at 1.095 under the kept target 1.10, fair value 1.05
C4_Witness ==
    \E o \in Options :
        /\ Processed
        /\ stats[o].position = 0
        /\ stats[o].target = 1100
        /\ stats[o].market = 1095
        /\ assets.quote[o].closed_form = 1050
        /\ OrdersFor(orders, o) = <<sell(o, Contracts, "signal")>>

\* C5: manage_risk posts neutralizing orders exactly when |net_delta| > 5000;
\* they are SELLs of the underlying when net_delta > 0 and BUYs otherwise.
C5_HedgeTrigger ==
    Processed =>
        LET hedge == OrdersBy(orders, "hedge")
        IN  /\ hedge # <<>> <=> Abs(net_delta) > 10 * 5000
            /\ \A i \in 1..Len(hedge) :
                  /\ hedge[i].ticker = "RTM"
                  /\ hedge[i].action = IF net_delta > 0 THEN "SELL" ELSE "BUY"

\* net_delta is exactly 5000 and nothing is posted
C5_Witness ==
    /\ Processed
    /\ net_delta = 10 * 5000
    /\ orders = <<>>

RECURSIVE TotalQuantity(_)
TotalQuantity(posted) ==
    IF posted = <<>> THEN 0 ELSE Head(posted).quantity + TotalQuantity(Tail(posted))

\* C6: when the neutralization triggers, the shares ordered in the tick total
\* floor(0.7 x |net_delta|), a whole number of shares.
C6_HedgeQuantityFloor ==
    Processed =>
        LET hedge == OrdersBy(orders, "hedge")
        IN  hedge # <<>> =>
                TotalQuantity(hedge) = 10 * ((7 * Abs(net_delta)) \div 100)

\* C7: the neutralizing orders of a tick are on one side, each of at most
\* 10000 shares, all but the last of exactly 10000, the last of more than 0
\* and at most 10000, and they total the hedge quantity q; q <= 10000 is
\* posted as a single order.
C7_HedgeSplit ==
    Processed =>
        LET hedge == OrdersBy(orders, "hedge")
            q == Abs(int(net_delta)) * 7
            n == Len(hedge)
        IN  Abs(net_delta) > 10 * 5000 =>
                /\ n >= 1
                /\ \A i, j \in 1..n : hedge[i].action = hedge[j].action
                /\ \A i \in 1..n : hedge[i].quantity <= 10 * 10000
                /\ \A i \in 1..(n - 1) : hedge[i].quantity = 10 * 10000
                /\ hedge[n].quantity > 0
                /\ TotalQuantity(hedge) = q
                /\ q <= 10 * 10000 => n = 1

\* a quantity of 70000 shares went out as seven orders of 10000
C7_Witness ==
    LET hedge == OrdersBy(orders, "hedge")
    IN  /\ Processed
        /\ Len(hedge) = 7
        /\ hedge[7].quantity = 10 * 10000

\* exposure of option o in tenths of a share: sign x delta x 90 x 100
OptionExposure(o) ==
    LET sign == IF stats[o].position = 1 THEN 1
                ELSE IF stats[o].position = 2 THEN -1 ELSE 0
    IN  (sign * stats[o].delta * 90 * 100) \div 1000

RECURSIVE TotalExposure(_)
TotalExposure(S) ==
    IF S = {} THEN 0
    ELSE LET o == CHOOSE x \in S : TRUE
         IN  OptionExposure(o) + TotalExposure(S \ {o})

\* C8: the net_delta of a tick is the sum over the options of
\* sign x delta x 90 x 100 (sign +1 Long, -1 Short, 0 Flat) plus the position
\* of the underlying read in that tick's snapshot, whatever the earlier ticks
\* computed.
C8_NetDelta ==
    Processed =>
        /\ stats["RTM"].position = assets.rtm.position
        /\ net_delta = TotalExposure(Options) + 10 * assets.rtm.position

\* a Long option, a Short option and a position in the underlying
C8_Witness ==
    /\ Processed
    /\ \E o \in Options : stats[o].position = 1 /\ stats[o].delta # 0
    /\ \E o \in Options : stats[o].position = 2 /\ stats[o].delta # 0
    /\ stats["RTM"].position # 0

\* C9: with |net_delta| <= 5000 and a position p # 0 in the underlying,
\* manage_risk posts one opposite order of |p| shares exactly when the gain
\* per share exceeds the fee of 0.02 per share and net_delta - p stays within
\* the risk limit.
C9_UnwindPerShare ==
    Processed =>
        LET rtm == stats["RTM"]
            p == rtm.position
            gain == IF p > 0 THEN rtm.market - rtm.vwap ELSE rtm.vwap - rtm.market
            due == gain > 20 /\ Abs(net_delta - 10 * p) <= 10 * 5000
            unwind == OrdersBy(orders, "unwind")
        IN  Abs(net_delta) <= 10 * 5000 /\ p # 0 =>
                IF due
                THEN unwind = <<Order("RTM", IF p > 0 THEN "SELL" ELSE "BUY",
                                      10 * Abs(p), "unwind")>>
                ELSE unwind = <<>>

\* C10: sigma changes only in a step that processes one of the checkpoint
\* ticks and whose parse returned a positive value, which it takes; at any
\* other tick the parser is not called, and with a parse that is not positive
\* sigma keeps its value.
C10_SigmaFrame ==
    [][/\ sigma' # sigma =>
            /\ ProcessedStep
            /\ current_tick \in {1, 2, 74, 75, 149, 150, 224, 225}
            /\ temp'.called /\ temp'.value > 0 /\ sigma' = temp'.value
       /\ ProcessedStep /\ current_tick \notin {1, 2, 74, 75, 149, 150, 224, 225}
            => ~temp'.called /\ sigma' = sigma
       /\ ProcessedStep /\ temp'.called /\ temp'.value <= 0 => sigma' = sigma
       /\ ProcessedStep /\ temp'.called /\ temp'.value > 0 => sigma' = temp'.value]_vars

\* a checkpoint whose parse failed left a valid sigma as it was
C10_Witness ==
    /\ Processed
    /\ temp.called
    /\ temp.value <= 0
    /\ sigma > 0

\* C11: a query that fails ends the session.  Once a call of get_tick,
\* get_securities, get_realized_volatility or get_profit_loss has raised, the
\* process is at its end and takes no further step (no retry, no order, no
\* tick processed); the step in which the call raises posts no order and leaves
\* the ledger as it was, and a tick whose securities or announcement query
\* failed is not processed.
C11_FailFast ==
    /\ [](raised.in # "none" =>
            /\ pc = "failed"
            /\ (raised.in \in {"get_securities", "get_realized_volatility"}
                    => last_processed # current_tick))
    /\ [][/\ raised.in = "none"
          /\ (raised'.in # "none" =>
                 UNCHANGED <<stats, orders, net_delta, sigma, last_processed,
                             net_contracts>>)]_vars

\* the securities query fails after a tick in which orders were posted
C11_Witness == raised.in = "get_securities" /\ Processed /\ orders # <<>>

\* C12: when the query of the announcement feed succeeds, a value that cannot
\* be parsed from it never ends the process: get_realized_volatility raises
\* only on a response that is not a success.
C12_ParseFailureRecovered ==
    raised.in = "get_realized_volatility" => raised.error = "Exception"

\* C13: whenever T <= 0 or sigma <= 0, black_scholes_price returns the
\* intrinsic value: max(S - K, 0) for a call and max(K - S, 0) for a put.
C13_DegenerateIntrinsic ==
    (price.called /\ (args.T <= 0 \/ args.sigma <= 0)) =>
        price.value = IF args.is_call THEN Max(args.S - args.K, 0)
                      ELSE Max(args.K - args.S, 0)

\* the last poll of a started session returned a tick >= 300 or a status
\* that is not active
EndReported == pc = "loop" /\ (current_tick >= MAX_TICKS_IN_SESSION \/ shutdown)

\* C14: the main loop stops at the first poll that returns a tick >= 300 or
\* a status that is not active: the next step reads the net-liquidation value
\* and ends the process without processing that tick and without posting an
\* order; the value is read once, at the end, and never otherwise; and once
\* the end is reported the process does end.
C14_Termination ==
    /\ [](pl_reads = IF pc = "done" \/ raised.in = "get_profit_loss" THEN 1 ELSE 0)
    /\ [](last_processed < MAX_TICKS_IN_SESSION)
    /\ [][/\ pc # "done"
          /\ (EndReported =>
                 /\ pc' \in {"done", "failed"}
                 /\ pl_reads' = pl_reads + 1
                 /\ UNCHANGED <<stats, orders, net_delta, last_processed,
                                net_contracts>>)]_vars
    /\ (EndReported ~> (pc = "done" \/ raised.in = "get_profit_loss"))

\* the session ended at tick 300 after ticks were processed and orders posted
C14_Witness ==
    /\ pc = "done"
    /\ pl_reads = 1
    /\ current_tick >= MAX_TICKS_IN_SESSION
    /\ Processed
    /\ orders # <<>>

\* C15: a call of perform_options_trades posts at most one order for each
\* option and none for the underlying, and leaves the ledger entry of the
\* underlying as the refresh wrote it; the orders for the underlying are
\* those of manage_risk, which posts none for an option.
C15_SignalScope ==
    /\ \A o \in Options : Len(OrdersFor(OrdersBy(orders, "signal"), o)) <= 1
    /\ \A i \in 1..Len(orders) :
          (orders[i].ticker = "RTM") <=> (orders[i].by \in {"hedge", "unwind"})
    /\ Processed =>
          stats["RTM"] = [position |-> assets.rtm.position, target |-> 0,
                          market |-> assets.rtm.last, vwap |-> assets.rtm.vwap]

\* a tick in which an option is traded and the underlying is hedged
C15_Witness ==
    /\ OrdersBy(orders, "signal") # <<>>
    /\ OrdersBy(orders, "hedge") # <<>>

\* the step leaves the position and the delta of every option as they were
OptionStatesKept ==
    \A o \in Options :
        /\ stats'[o].position = stats[o].position
        /\ stats'[o].delta = stats[o].delta

\* C16: when the tick processed before posted neutralizing orders and the
\* next processed tick finds the position of the underlying, the option
\* positions and the deltas unchanged, manage_risk computes the same net_delta
\* and posts the same neutralizing orders again (same side, same quantities).
C16_HedgeRepeats ==
    [][(/\ ProcessedStep
        /\ OrdersBy(orders, "hedge") # <<>>
        /\ stats'["RTM"].position = stats["RTM"].position
        /\ OptionStatesKept)
       => (/\ net_delta' = net_delta
           /\ OrdersBy(orders', "hedge") = OrdersBy(orders, "hedge"))]_vars

\* tick 2 hedges a put that tick 1 bought and hedged, the underlying still flat
C16_Witness ==
    /\ last_processed = 2
    /\ stats["RTM48P"].position = 1
    /\ stats["RTM"].position = 0
    /\ OrdersBy(orders, "signal") = <<>>
    /\ OrdersBy(orders, "hedge") # <<>>

\* the ledger once the position of the underlying has been sold or bought back
Unwound(st) == [st EXCEPT !["RTM"].position = 0]

\* C17: whenever manage_risk posts an unwinding order, the net delta of the
\* ledger with the position of the underlying at 0 and the options as they
\* are is net_delta - position, the quantity the gate tested, and its absolute
\* value is at most 5000, so that manage_risk on that ledger posts no
\* neutralizing order; the same holds of the net_delta of the next processed
\* tick when it finds the underlying flat and the options unchanged.
C17_UnwindWithinLimit ==
    /\ [](OrdersBy(orders, "unwind") # <<>> =>
            /\ compute_net_delta(Unwound(stats)) = net_delta - 10 * stats["RTM"].position
            /\ Abs(compute_net_delta(Unwound(stats))) <= 10 * NET_DELTA_RISK_LIMIT
            /\ OrdersBy(manage_risk(Unwound(stats)).orders, "hedge") = <<>>)
    /\ [][(/\ ProcessedStep
           /\ OrdersBy(orders, "unwind") # <<>>
           /\ stats'["RTM"].position = 0
           /\ OptionStatesKept)
          => (/\ Abs(net_delta') <= 10 * NET_DELTA_RISK_LIMIT
              /\ OrdersBy(orders', "hedge") = <<>>)]_vars

\* an unwinding order posted while an option position is open
C17_Witness ==
    /\ OrdersBy(orders, "unwind") # <<>>
    /\ \E o \in Options : stats[o].position # 0

\* C18: as long as sigma is the initial sentinel, no order for an option has
\* been posted, every option is Flat, and no market price, target or delta of
\* an option has been written: the ledger entries of the options are those
\* of the start.
C18_NoTradeWithoutSigma ==
    sigma < 0 =>
        /\ \A o \in Options : stats[o] = InitialStats[o]
        /\ \A o \in Options : OrdersFor(orders, o) = <<>> /\ net_contracts[o] = 0

\* a checkpoint tick processed to its end on a feed that could not be parsed
C18_Witness ==
    /\ sigma < 0
    /\ last_processed \in Checkpoints
    /\ temp.called
    /\ assets.quote # NoAssets.quote

\* C19: when a step closes a Long position of an option, the market price of
\* the closing tick is at least 0.03 above the market price at which the
\* position was entered; when it closes a Short position, at least 0.03 below.
C19_ExitBeyondEntry ==
    [][\A o \in Options :
          /\ (stats[o].position = 1 /\ stats'[o].position = 0)
                => stats'[o].market >= entry[o] + (ENTRY_GAP - EXIT_GAP)
          /\ (stats[o].position = 2 /\ stats'[o].position = 0)
                => stats'[o].market <= entry[o] - (ENTRY_GAP - EXIT_GAP)]_vars

\* a Long position closed at the lower edge of the exit band: the option is
\* Flat, the tick sold it, and the market price is 0.01 below the target
C19_Witness ==
    \E o \in Options :
        /\ stats[o].position = 0
        /\ OrdersFor(orders, o) # <<>>
        /\ OrdersFor(orders, o)[1].action = "SELL"
        /\ stats[o].market = stats[o].target - EXIT_GAP

\* C20: for every option the contracts ordered since the start of the
\* session, BUY orders minus SELL orders, are +90 when the option is Long,
\* -90 when it is Short and 0 when it is Flat.
C20_NetContracts ==
    \A o \in Options :
        net_contracts[o] = IF stats[o].position = 1 THEN OPTIONS_QTY_PER_TRADE
                           ELSE IF stats[o].position = 2 THEN -OPTIONS_QTY_PER_TRADE
                           ELSE 0

\* a round trip: an option is Flat again after the order that closed it, and
\* another is held Short
C20_Witness ==
    /\ \E o \in Options :
          /\ stats[o].position = 0
          /\ OrdersFor(orders, o) # <<>>
          /\ net_contracts[o] = 0
    /\ \E o \in Options : stats[o].position = 2 /\ net_contracts[o] = -OPTIONS_QTY_PER_TRADE

====
